---- MODULE Spec2Model ----
(***************************************************************************)
(* Model of ConfigValidator (src/validator.py): file-type detection, the   *)
(* YAML/JSON syntax checkers, the Docker Compose / Kubernetes / Terraform  *)
(* structural validators, validate_file and validate_directory.            *)
(*                                                                         *)
(* Strings the code inspects character by character (file names, glob      *)
(* patterns, apiVersion values) are sequences of one-character strings.    *)
(* A file's content is the outcome the parsers produce on it (readable or  *)
(* not, YAML parse result, JSON parse result) together with its raw text,   *)
(* which validate_terraform searches.                                      *)
(***************************************************************************)
EXTENDS Integers, Sequences, FiniteSets, TLC

\* ------------------------------------------------------------------ bounds
MaxServices == 2        \* entries of a `services` mapping
MaxTextLen == 2         \* tokens of a raw text
MaxDirFiles == 2        \* entries of a validated directory
MaxViolations == 2      \* violations of a schema by one document
MaxPaths == 2           \* positional paths of one command line

\* ------------------------------------------------------- string primitives
UpperChars == <<"A","B","C","D","E","F","G","H","I","J","K","L","M",
                "N","O","P","Q","R","S","T","U","V","W","X","Y","Z">>
LowerChars == <<"a","b","c","d","e","f","g","h","i","j","k","l","m",
                "n","o","p","q","r","s","t","u","v","w","x","y","z">>

\* str.lower() on one character
LowerChar(c) ==
    IF \E i \in 1..Len(UpperChars) : UpperChars[i] = c
    THEN LowerChars[CHOOSE i \in 1..Len(UpperChars) : UpperChars[i] = c]
    ELSE c

\* str.lower()
Lower(s) == [i \in 1..Len(s) |-> LowerChar(s[i])]

\* str.endswith(suf)
EndsWith(s, suf) ==
    /\ Len(s) >= Len(suf)
    /\ SubSeq(s, Len(s) - Len(suf) + 1, Len(s)) = suf

\* `sub in s`
Contains(s, sub) ==
    \E i \in 1..(Len(s) - Len(sub) + 1) : SubSeq(s, i, i + Len(sub) - 1) = sub

\* fnmatch of a file name against a pattern whose only wildcard is '*'
\* (case-sensitive, as pathlib matches on POSIX)
RECURSIVE GlobMatch(_, _)
GlobMatch(p, s) ==
    IF p = <<>> THEN s = <<>>
    ELSE IF Head(p) = "*"
         THEN \/ GlobMatch(Tail(p), s)
              \/ (s # <<>> /\ GlobMatch(p, Tail(s)))
         ELSE s # <<>> /\ Head(s) = Head(p) /\ GlobMatch(Tail(p), Tail(s))

\* ------------------------------------------------------------- file names
N_docker_compose_yml == <<"d","o","c","k","e","r","-","c","o","m","p","o","s","e",".","y","m","l">>
N_docker_compose_override_yml == <<"d","o","c","k","e","r","-","c","o","m","p","o","s","e",".","o","v","e","r","r","i","d","e",".","y","m","l">>
N_compose_yaml == <<"c","o","m","p","o","s","e",".","y","a","m","l">>
N_compose_yml == <<"c","o","m","p","o","s","e",".","y","m","l">>
N_pod_yaml == <<"p","o","d",".","y","a","m","l">>
N_k8s_pod_yaml == <<"k","8","s","-","p","o","d",".","y","a","m","l">>
N_kubernetes_json == <<"k","u","b","e","r","n","e","t","e","s",".","j","s","o","n">>
N_main_tf == <<"m","a","i","n",".","t","f">>
N_main_tf_json == <<"m","a","i","n",".","t","f",".","j","s","o","n">>
N_config_json == <<"c","o","n","f","i","g",".","j","s","o","n">>
N_config_yaml == <<"c","o","n","f","i","g",".","y","a","m","l">>
N_app_yml == <<"a","p","p",".","y","m","l">>
N_README_md == <<"R","E","A","D","M","E",".","m","d">>
N_NOTES_MD == <<"N","O","T","E","S",".","M","D">>
N_guide_markdown == <<"g","u","i","d","e",".","m","a","r","k","d","o","w","n">>
N_notes_txt == <<"n","o","t","e","s",".","t","x","t">>
N_out_log == <<"o","u","t",".","l","o","g">>
N_tool_py == <<"t","o","o","l",".","p","y">>
N_tool_pyc == <<"t","o","o","l",".","p","y","c">>
N_run_sh == <<"r","u","n",".","s","h">>
N_run_bash == <<"r","u","n",".","b","a","s","h">>
N_Makefile == <<"M","a","k","e","f","i","l","e">>
N_docker_compose_md == <<"d","o","c","k","e","r","-","c","o","m","p","o","s","e",".","m","d">>
N_docker_compose_tf == <<"d","o","c","k","e","r","-","c","o","m","p","o","s","e",".","t","f">>
N_k8s_tf == <<"k","8","s",".","t","f">>
N_K8S_YML == <<"K","8","S",".","Y","M","L">>

FileNames ==
    { N_docker_compose_yml, N_docker_compose_override_yml, N_compose_yaml,
      N_compose_yml, N_pod_yaml, N_k8s_pod_yaml, N_kubernetes_json, N_main_tf,
      N_main_tf_json, N_config_json, N_config_yaml, N_app_yml, N_README_md,
      N_NOTES_MD, N_guide_markdown, N_notes_txt, N_out_log, N_tool_py,
      N_tool_pyc, N_run_sh, N_run_bash, N_Makefile, N_docker_compose_md,
      N_docker_compose_tf, N_k8s_tf, N_K8S_YML }

\* names of the directory that immediately contains a file
ParentNames == {"conf", "k8s"}

\* a path: the name of the immediate parent directory and the file name
Paths == [parent : ParentNames, name : FileNames]

\* ------------------------------------------------- parsed YAML documents
\* A value yaml.safe_load can give to `apiVersion`: a string (its characters)
\* or a non-string scalar.
StrVal(chars) == [t |-> "str", s |-> chars]
NonStrVal(tag) == [t |-> tag, s |-> <<>>]
ApiVersionValues ==
    { StrVal(<<"v","1">>), StrVal(<<"a","p","p","s","/","v","1">>),
      StrVal(<<"v","2">>), StrVal(<<"/">>), StrVal(<<>>),
      NonStrVal("int"), NonStrVal("null") }

\* A value of `metadata`: a mapping (its key set) or something else.
MetadataValues ==
      [t : {"dict"}, keys : SUBSET {"name", "labels"}]
    \cup [t : {"null", "str"}, keys : {{}}]

\* A value of one entry of `services`: a mapping (its key set) or something else.
ServiceConfigs ==
      [t : {"dict"}, keys : {{"ports"}, {"image"}, {"build"}}]
    \cup [t : {"null"}, keys : {{}}]

ServiceNames == {"web", "db", "cache"}

\* The entries of a `services` mapping in document order (dict.items() order):
\* pairs of a key and its value, keys distinct.
ServiceItems ==
    UNION { { it \in [1..n -> [name : ServiceNames, cfg : ServiceConfigs]] :
                \A i, j \in 1..n : i # j => it[i].name # it[j].name }
            : n \in 0..MaxServices }

\* A value of `services`: a mapping (its items) or something else.
ServicesValues ==
      [t : {"dict"}, items : ServiceItems]
    \cup [t : {"null", "list"}, items : {<<>>}]

NoApiVersion == NonStrVal("absent")
NoMetadata == [t |-> "absent", keys |-> {}]
NoServices == [t |-> "absent", items |-> <<>>]

\* The root value of a parsed document.  For a mapping, `keys` is its key set
\* and apiVersion / metadata / services are the values of those keys (the
\* values of `version`, `kind` and other keys are never inspected).
NonDictRoot(tag) ==
    [t |-> tag, keys |-> {}, apiVersion |-> NoApiVersion,
     metadata |-> NoMetadata, services |-> NoServices]

DictRoot(ks, av, md, sv) ==
    [t |-> "dict", keys |-> ks,
     apiVersion |-> IF "apiVersion" \in ks THEN av ELSE NoApiVersion,
     metadata |-> IF "metadata" \in ks THEN md ELSE NoMetadata,
     services |-> IF "services" \in ks THEN sv ELSE NoServices]

NonDictRoots == { NonDictRoot(tag) : tag \in {"null", "list", "str"} }

\* documents written as Compose files
ComposeRoots ==
    { DictRoot(ks, NoApiVersion, NoMetadata, sv) :
        ks \in SUBSET {"version", "services"}, sv \in ServicesValues }

\* documents written as Kubernetes manifests
K8sRoots ==
    { DictRoot(ks \cup {"spec"}, av, md, NoServices) :
        ks \in SUBSET {"apiVersion", "kind", "metadata"},
        av \in ApiVersionValues, md \in MetadataValues }

\* documents carrying keys of both families, and plain key/value documents
MixedRoots ==
    { DictRoot(ks, StrVal(<<"v","1">>), [t |-> "dict", keys |-> {"name"}],
               [t |-> "dict", items |-> <<>>]) :
        ks \in { {"key"}, {"apiVersion", "kind", "services"},
                 {"apiVersion", "version"}, {"kind", "services", "metadata"},
                 {"apiVersion", "kind", "version", "metadata"} } }

Roots == NonDictRoots \cup ComposeRoots \cup K8sRoots \cup MixedRoots

\* ------------------------------------------------------------ raw texts
\* A raw text is the sequence of its characters.  The texts of the model are
\* made of up to MaxTextLen pieces: the four delimiters, a block keyword, a
\* word that has the keyword `data` inside it, and a word with no keyword.
TextTokens ==
    { <<"{">>, <<"}">>, <<"[">>, <<"]">>, <<"x">>,
      <<"r","e","s","o","u","r","c","e">>,
      <<"m","e","t","a","d","a","t","a">> }

RECURSIVE Flatten(_)
Flatten(tokens) ==
    IF tokens = <<>> THEN <<>> ELSE Head(tokens) \o Flatten(Tail(tokens))

Texts == UNION { { Flatten(ts) : ts \in [1..n -> TextTokens] } : n \in 0..MaxTextLen }

\* ------------------------------------------------------------- contents
\* readable: open()/read() succeed;  yaml / json: the parse outcome;
\* root: what yaml.safe_load returns when yaml = "ok";  text: the raw text.
Content(r, y, j, rt, tx) ==
    [readable |-> r, yaml |-> y, json |-> j, root |-> rt, text |-> tx]

YamlDocs == { Content(TRUE, "ok", "error", rt, <<>>) : rt \in Roots }

JsonDocs ==
    { Content(TRUE, y, "ok", rt, <<"{", "}">>) :
        y \in {"ok"}, rt \in NonDictRoots \cup MixedRoots }

BrokenDocs ==
    { Content(TRUE, "error", j, NonDictRoot("null"), tx) :
        j \in {"ok", "error"}, tx \in {<<>>, <<"{">>} }

UnreadableDocs == { Content(FALSE, "error", "error", NonDictRoot("null"), <<>>) }

TerraformDocs ==
    { Content(TRUE, y, "error", NonDictRoot("str"), tx) :
        y \in {"ok", "error"}, tx \in Texts }

Contents == YamlDocs \cup JsonDocs \cup BrokenDocs \cup UnreadableDocs \cup TerraformDocs

\* ---------------------------------------------------------------- files
\* kind: a regular file, a directory, or a path at which nothing exists
File(p, k, c) == [path |-> p, kind |-> k, content |-> c]

\* os.path.exists(file_path)
Exists(f) == f.kind # "missing"

\* open(file_path) and reading the whole stream succeed
CanRead(f) == f.kind = "file" /\ f.content.readable

\* --------------------------------------------------------------- errors
\* An error string: its fixed wording, the path it embeds, the name it
\* embeds (a service or a field, "" if none) and the two counts it embeds
\* (0 if none).
Err(m, f, a) == [msg |-> m, path |-> f.path, arg |-> a, n1 |-> 0, n2 |-> 0]
ErrCounts(m, f, c1, c2) == [msg |-> m, path |-> f.path, arg |-> "", n1 |-> c1, n2 |-> c2]

Result(errs) == [valid |-> Len(errs) = 0, errors |-> errs]
Failure(errs) == [valid |-> FALSE, errors |-> errs]

\* ------------------------------------------------------ syntax checkers
validate_yaml(f) ==
    IF ~CanRead(f) THEN Failure(<<Err("Error reading", f, "")>>)
    ELSE IF f.content.yaml = "error"
         THEN Failure(<<Err("YAML syntax error in", f, "")>>)
         ELSE [valid |-> TRUE, errors |-> <<>>]

validate_json(f) ==
    IF ~CanRead(f) THEN Failure(<<Err("Error reading", f, "")>>)
    ELSE IF f.content.json = "error"
         THEN Failure(<<Err("JSON syntax error in", f, "")>>)
         ELSE [valid |-> TRUE, errors |-> <<>>]

\* -------------------------------------------------- validate_docker_compose
\* the body of the loop over services.items(): the error of one service, if any
ServiceErrors(f, item) ==
    IF item.cfg.t # "dict"
    THEN <<Err("Service must be a dictionary", f, item.name)>>
    ELSE IF "image" \notin item.cfg.keys /\ "build" \notin item.cfg.keys
         THEN <<Err("Service must have either 'image' or 'build'", f, item.name)>>
         ELSE <<>>

\* the loop over services.items() leaving at the first service in error
RECURSIVE ServicesLoop_StopAtFirst(_, _)
ServicesLoop_StopAtFirst(f, items) ==
    IF items = <<>> THEN <<>>
    ELSE IF ServiceErrors(f, Head(items)) # <<>>
         THEN ServiceErrors(f, Head(items))
         ELSE ServicesLoop_StopAtFirst(f, Tail(items))

\* the loop over services.items(), in order
RECURSIVE ServicesLoop(_, _)
ServicesLoop(f, items) ==
    IF items = <<>> THEN <<>>
    ELSE ServiceErrors(f, Head(items)) \o ServicesLoop(f, Tail(items))

\* the guard of the "Missing 'services' key" return
MissingServicesGuard(content) ==
    /\ "version" \notin content.keys /\ "services" \notin content.keys
    /\ "services" \notin content.keys

validate_docker_compose(f) ==
    LET content == f.content.root IN
    IF ~CanRead(f)
    THEN Failure(<<Err("Error validating Docker Compose file", f, "")>>)
    ELSE IF f.content.yaml = "error"
    THEN Failure(<<Err("YAML error in", f, "")>>)
    ELSE IF content.t # "dict"
    THEN Failure(<<Err("Root must be a dictionary", f, "")>>)
    ELSE IF MissingServicesGuard(content)
    THEN Failure(<<Err("Missing 'services' key", f, "")>>)
    ELSE IF "services" \in content.keys
    THEN IF content.services.t # "dict"
         THEN Failure(<<Err("'services' must be a dictionary", f, "")>>)
         ELSE Result(ServicesLoop(f, content.services.items))
    ELSE Result(<<>>)

\* --------------------------------------------- validate_kubernetes_manifest
required_fields == <<"apiVersion", "kind", "metadata">>

\* the loop over required_fields leaving at the first missing field
RECURSIVE RequiredLoop_StopAtFirst(_, _, _)
RequiredLoop_StopAtFirst(f, content, fields) ==
    IF fields = <<>> THEN <<>>
    ELSE IF Head(fields) \notin content.keys
         THEN <<Err("Missing required field", f, Head(fields))>>
         ELSE RequiredLoop_StopAtFirst(f, content, Tail(fields))

\* the loop over required_fields
RECURSIVE RequiredLoop(_, _, _)
RequiredLoop(f, content, fields) ==
    IF fields = <<>> THEN <<>>
    ELSE (IF Head(fields) \notin content.keys
          THEN <<Err("Missing required field", f, Head(fields))>>
          ELSE <<>>) \o RequiredLoop(f, content, Tail(fields))

MetadataErrors(f, content) ==
    IF "metadata" \in content.keys
    THEN IF content.metadata.t # "dict"
         THEN <<Err("'metadata' must be a dictionary", f, "")>>
         ELSE IF "name" \notin content.metadata.keys
              THEN <<Err("'metadata.name' is required", f, "")>>
              ELSE <<>>
    ELSE <<>>

\* isinstance(api_version, str)
IsStr(v) == v.t = "str"

\* the apiVersion check without the exemption of 'v1'
ApiVersionErrors_NoV1(f, content) ==
    IF "apiVersion" \in content.keys
    THEN LET api_version == content.apiVersion IN
         IF ~IsStr(api_version) \/ ~Contains(api_version.s, <<"/">>)
         THEN <<Err("'apiVersion' should follow format 'group/version' or 'v1'", f, "")>>
         ELSE <<>>
    ELSE <<>>

ApiVersionErrors(f, content) ==
    IF "apiVersion" \in content.keys
    THEN LET api_version == content.apiVersion IN
         IF ~IsStr(api_version) \/ ~Contains(api_version.s, <<"/">>)
         THEN IF api_version # StrVal(<<"v","1">>)
              THEN <<Err("'apiVersion' should follow format 'group/version' or 'v1'", f, "")>>
              ELSE <<>>
         ELSE <<>>
    ELSE <<>>

validate_kubernetes_manifest(f) ==
    LET content == f.content.root IN
    IF ~CanRead(f)
    THEN Failure(<<Err("Error validating Kubernetes manifest", f, "")>>)
    ELSE IF f.content.yaml = "error"
    THEN Failure(<<Err("YAML error in", f, "")>>)
    ELSE IF content.t # "dict"
    THEN Failure(<<Err("Root must be a dictionary", f, "")>>)
    ELSE Result(RequiredLoop(f, content, required_fields)
                \o MetadataErrors(f, content)
                \o ApiVersionErrors(f, content))

\* ------------------------------------------------------ validate_terraform
\* content.count(tok), for a one-character tok
RECURSIVE Count(_, _)
Count(text, tok) ==
    IF text = <<>> THEN 0
    ELSE (IF Head(text) = tok THEN 1 ELSE 0) + Count(Tail(text), tok)

TerraformKeywords ==
    { <<"r","e","s","o","u","r","c","e">>, <<"d","a","t","a">>,
      <<"v","a","r","i","a","b","l","e">>, <<"o","u","t","p","u","t">>,
      <<"p","r","o","v","i","d","e","r">>, <<"m","o","d","u","l","e">>,
      <<"t","e","r","r","a","f","o","r","m">> }

BraceErrors(f, content) ==
    LET open_braces == Count(content, "{")
        close_braces == Count(content, "}") IN
    IF open_braces # close_braces
    THEN <<ErrCounts("Unbalanced braces", f, open_braces, close_braces)>>
    ELSE <<>>

BracketErrors(f, content) ==
    LET open_brackets == Count(content, "[")
        close_brackets == Count(content, "]") IN
    IF open_brackets # close_brackets
    THEN <<ErrCounts("Unbalanced brackets", f, open_brackets, close_brackets)>>
    ELSE <<>>

KeywordErrors(f, content) ==
    IF ~(\E keyword \in TerraformKeywords : Contains(content, keyword))
    THEN <<Err("No Terraform blocks found", f, "")>>
    ELSE <<>>

\* validate_terraform returning at the first failed check
validate_terraform_StopAtFirst(f) ==
    IF ~CanRead(f)
    THEN Failure(<<Err("Error validating Terraform file", f, "")>>)
    ELSE IF BraceErrors(f, f.content.text) # <<>>
    THEN Failure(BraceErrors(f, f.content.text))
    ELSE IF BracketErrors(f, f.content.text) # <<>>
    THEN Failure(BracketErrors(f, f.content.text))
    ELSE Result(KeywordErrors(f, f.content.text))

validate_terraform(f) ==
    IF ~CanRead(f)
    THEN Failure(<<Err("Error validating Terraform file", f, "")>>)
    ELSE Result(BraceErrors(f, f.content.text)
                \o BracketErrors(f, f.content.text)
                \o KeywordErrors(f, f.content.text))

\* ---------------------------------------------------- validate_json_schema
\* A schema_path argument.  given: the argument is a non-empty string (a None
\* or empty argument is falsy);  exists: os.path.exists(schema_path);
\* readable: open()/read() succeed;  json: the outcome of json.load;
\* wellformed: the parsed document is a schema the evaluator accepts.
SchemaArg(g, e, r, j, w) ==
    [given |-> g, exists |-> e, readable |-> r, json |-> j, wellformed |-> w,
     path |-> [parent |-> "conf", name |-> <<"s","c","h","e","m","a",".","j","s","o","n">>]]

NoSchemaArg == SchemaArg(FALSE, FALSE, FALSE, "error", FALSE)

SchemaArgs ==
    { NoSchemaArg,
      SchemaArg(TRUE, FALSE, FALSE, "error", FALSE),
      SchemaArg(TRUE, TRUE, FALSE, "error", FALSE),
      SchemaArg(TRUE, TRUE, TRUE, "error", FALSE),
      SchemaArg(TRUE, TRUE, TRUE, "ok", FALSE),
      SchemaArg(TRUE, TRUE, TRUE, "ok", TRUE) }

\* A violation the schema evaluator finds: e.message and the dotted form of
\* e.path ("" for the empty path of a violation at the root).
Violations ==
    { [message |-> "'name' is a required property", where |-> ""],
      [message |-> "'x' is not of type 'number'", where |-> "age"],
      [message |-> "'y' is not of type 'string'", where |-> "user.email"] }

\* The violations of one document against one schema, in the evaluator's order
\* of preference: validate() raises the first of them, or nothing if none.
ViolationLists == UNION { [1..n -> Violations] : n \in 0..MaxViolations }

\* the files validate_json_schema opens, in order
JsonSchemaReads(f, sp) ==
    <<"data">>
    \o (IF CanRead(f) /\ f.content.json = "ok" /\ sp.given /\ sp.exists
        THEN <<"schema">> ELSE <<>>)

\* the handler of ValidationError
SchemaViolationErrors(f, e) ==
    <<Err("Schema validation error", f, e.message)>>
    \o (IF e.where # "" THEN <<Err("  Path:", f, e.where)>> ELSE <<>>)

\* the handler of ValidationError reporting every violation
RECURSIVE AllViolationErrors(_, _)
AllViolationErrors(f, vs) ==
    IF vs = <<>> THEN <<>>
    ELSE SchemaViolationErrors(f, Head(vs)) \o AllViolationErrors(f, Tail(vs))

\* validate_json_schema collecting the errors of every violation
validate_json_schema_AllViolations(f, sp, vs) ==
    IF ~CanRead(f)
    THEN Failure(<<Err("Error validating JSON schema for", f, "")>>)
    ELSE IF f.content.json = "error"
    THEN Failure(<<Err("JSON syntax error in", f, "")>>)
    ELSE IF ~sp.given
    THEN Result(<<>>)
    ELSE IF ~sp.exists
    THEN Failure(<<Err("Schema file not found", sp, "")>>)
    ELSE IF ~sp.readable
    THEN Failure(<<Err("Error validating JSON schema for", f, "")>>)
    ELSE IF sp.json = "error"
    THEN Failure(<<Err("JSON syntax error in", f, "")>>)
    ELSE IF ~sp.wellformed
    THEN Failure(<<Err("Error validating JSON schema for", f, "")>>)
    ELSE Result(AllViolationErrors(f, vs))

\* vs: the violations of f's document against the schema at sp
validate_json_schema(f, sp, vs) ==
    IF ~CanRead(f)
    THEN Failure(<<Err("Error validating JSON schema for", f, "")>>)
    ELSE IF f.content.json = "error"
    THEN Failure(<<Err("JSON syntax error in", f, "")>>)
    ELSE IF ~sp.given
    THEN Result(<<>>)
    ELSE IF ~sp.exists
    THEN Failure(<<Err("Schema file not found", sp, "")>>)
    ELSE IF ~sp.readable
    THEN Failure(<<Err("Error validating JSON schema for", f, "")>>)
    ELSE IF sp.json = "error"
    THEN Failure(<<Err("JSON syntax error in", f, "")>>)
    ELSE IF ~sp.wellformed
    THEN Failure(<<Err("Error validating JSON schema for", f, "")>>)
    ELSE IF vs = <<>>
    THEN Result(<<>>)
    ELSE Result(SchemaViolationErrors(f, Head(vs)))

\* -------------------------------------------------------- detect_file_type
NonConfigTypes == {"markdown", "text", "python", "shell"}

\* the content sniffing with the Compose keys tested before the Kubernetes keys
DetectByContent_ServicesFirst(f) ==
    LET content == f.content.root IN
    IF CanRead(f) /\ f.content.yaml = "ok" /\ content.t = "dict"
    THEN IF "services" \in content.keys \/ "version" \in content.keys
         THEN "docker-compose"
         ELSE IF "apiVersion" \in content.keys /\ "kind" \in content.keys
              THEN "kubernetes"
              ELSE "yaml"
    ELSE "yaml"

\* the content sniffing of a .yaml / .yml file; any failure to open or parse
\* is swallowed by the bare `except` and falls through to 'yaml'
DetectByContent(f) ==
    LET content == f.content.root IN
    IF CanRead(f) /\ f.content.yaml = "ok" /\ content.t = "dict"
    THEN IF "apiVersion" \in content.keys /\ "kind" \in content.keys
         THEN "kubernetes"
         ELSE IF "services" \in content.keys \/ "version" \in content.keys
              THEN "docker-compose"
              ELSE "yaml"
    ELSE "yaml"

detect_file_type(f) ==
    LET filename == Lower(f.path.name) IN
    IF EndsWith(filename, <<".","m","d">>)
       \/ EndsWith(filename, <<".","m","a","r","k","d","o","w","n">>)
    THEN "markdown"
    ELSE IF EndsWith(filename, <<".","t","x","t">>) \/ EndsWith(filename, <<".","l","o","g">>)
    THEN "text"
    ELSE IF EndsWith(filename, <<".","p","y">>) \/ EndsWith(filename, <<".","p","y","c">>)
    THEN "python"
    ELSE IF EndsWith(filename, <<".","s","h">>) \/ EndsWith(filename, <<".","b","a","s","h">>)
    THEN "shell"
    ELSE IF Contains(filename, <<"d","o","c","k","e","r","-","c","o","m","p","o","s","e">>)
            \/ filename = N_compose_yml \/ filename = N_compose_yaml
    THEN "docker-compose"
    ELSE IF EndsWith(filename, <<".","t","f">>)
            \/ EndsWith(filename, <<".","t","f",".","j","s","o","n">>)
    THEN "terraform"
    ELSE IF Contains(filename, <<"k","8","s">>)
            \/ Contains(filename, <<"k","u","b","e","r","n","e","t","e","s">>)
            \/ f.path.parent = "k8s"
    THEN "kubernetes"
    ELSE IF EndsWith(filename, <<".","j","s","o","n">>)
    THEN "json"
    ELSE IF EndsWith(filename, <<".","y","a","m","l">>) \/ EndsWith(filename, <<".","y","m","l">>)
    THEN DetectByContent(f)
    ELSE "unknown"

\* ------------------------------------------------------------ validate_file
\* What a validate_file call returns, with `calls`, the checkers the call
\* invoked, in order.
FileResult(v, errs, ft, cs) ==
    [valid |-> v, errors |-> errs, file_type |-> ft, calls |-> cs]

\* the syntax phase checking as YAML every type that is neither json nor terraform
SyntaxPhase_YamlByDefault(f, file_type) ==
    IF file_type = "json"
    THEN [name |-> <<"validate_json">>, res |-> validate_json(f)]
    ELSE IF file_type = "terraform"
    THEN [name |-> <<>>, res |-> [valid |-> TRUE, errors |-> <<>>]]
    ELSE [name |-> <<"validate_yaml">>, res |-> validate_yaml(f)]

\* the syntax phase: the checker run for the type (if any) and its outcome
SyntaxPhase(f, file_type) ==
    IF file_type \in {"yaml", "docker-compose", "kubernetes"}
    THEN [name |-> <<"validate_yaml">>, res |-> validate_yaml(f)]
    ELSE IF file_type = "json"
    THEN [name |-> <<"validate_json">>, res |-> validate_json(f)]
    ELSE [name |-> <<>>, res |-> [valid |-> TRUE, errors |-> <<>>]]

\* the structural phase: the validator run for the type (if any) and its outcome
StructurePhase(f, file_type) ==
    IF file_type = "docker-compose"
    THEN [name |-> <<"validate_docker_compose">>, res |-> validate_docker_compose(f)]
    ELSE IF file_type = "kubernetes"
    THEN [name |-> <<"validate_kubernetes_manifest">>, res |-> validate_kubernetes_manifest(f)]
    ELSE IF file_type = "terraform"
    THEN [name |-> <<"validate_terraform">>, res |-> validate_terraform(f)]
    ELSE [name |-> <<>>, res |-> [valid |-> TRUE, errors |-> <<>>]]

\* validate_file without the early return on a syntax failure
ValidateTyped_NoEarlyReturn(f, file_type, detect) ==
    IF file_type \in NonConfigTypes
    THEN FileResult(TRUE, <<>>, file_type, detect)
    ELSE LET syn == SyntaxPhase(f, file_type)
             str == StructurePhase(f, file_type)
             errors == syn.res.errors \o str.res.errors IN
         FileResult(Len(errors) = 0, errors, file_type, detect \o syn.name \o str.name)

\* validate_file returning a fresh list on a syntax failure
ValidateTyped_DropSyntaxErrors(f, file_type, detect) ==
    IF file_type \in NonConfigTypes
    THEN FileResult(TRUE, <<>>, file_type, detect)
    ELSE LET syn == SyntaxPhase(f, file_type) IN
         IF ~syn.res.valid
         THEN FileResult(FALSE, <<>>, file_type, detect \o syn.name)
         ELSE LET str == StructurePhase(f, file_type)
                  errors == syn.res.errors \o str.res.errors IN
              FileResult(Len(errors) = 0, errors, file_type,
                         detect \o syn.name \o str.name)

\* validate_file rejecting the types it does not validate
ValidateTyped_SkipReportsInvalid(f, file_type, detect) ==
    IF file_type \in NonConfigTypes
    THEN FileResult(FALSE, <<Err("Unsupported file type", f, "")>>, file_type, detect)
    ELSE LET syn == SyntaxPhase(f, file_type) IN
         IF ~syn.res.valid
         THEN FileResult(FALSE, syn.res.errors, file_type, detect \o syn.name)
         ELSE LET str == StructurePhase(f, file_type)
                  errors == syn.res.errors \o str.res.errors IN
              FileResult(Len(errors) = 0, errors, file_type,
                         detect \o syn.name \o str.name)

\* the part of validate_file after the type is resolved
ValidateTyped(f, file_type, detect) ==
    IF file_type \in NonConfigTypes
    THEN FileResult(TRUE, <<>>, file_type, detect)
    ELSE LET syn == SyntaxPhase(f, file_type) IN
         IF ~syn.res.valid
         THEN FileResult(FALSE, syn.res.errors, file_type, detect \o syn.name)
         ELSE LET str == StructurePhase(f, file_type)
                  errors == syn.res.errors \o str.res.errors IN
              FileResult(Len(errors) = 0, errors, file_type,
                         detect \o syn.name \o str.name)

\* validate_file resolving the type before it tests that the path exists
validate_file_DetectFirst(f, hint) ==
    LET file_type == IF hint = "none" THEN detect_file_type(f) ELSE hint
        detect == IF hint = "none" THEN <<"detect_file_type">> ELSE <<>> IN
    IF ~Exists(f)
    THEN FileResult(FALSE, <<Err("File not found", f, "")>>, file_type, detect)
    ELSE ValidateTyped(f, file_type, detect)

\* hint = "none" stands for file_type=None
validate_file(f, hint) ==
    IF ~Exists(f)
    THEN FileResult(FALSE, <<Err("File not found", f, "")>>, "unknown", <<>>)
    ELSE IF hint = "none"
         THEN ValidateTyped(f, detect_file_type(f), <<"detect_file_type">>)
         ELSE ValidateTyped(f, hint, <<>>)

\* ------------------------------------------------------- validate_directory
P_yaml == <<"*",".","y","a","m","l">>
P_yml == <<"*",".","y","m","l">>
P_json == <<"*",".","j","s","o","n">>
P_tf == <<"*",".","t","f">>
P_compose_yml == <<"d","o","c","k","e","r","-","c","o","m","p","o","s","e","*",".","y","m","l">>
P_compose_yaml == <<"d","o","c","k","e","r","-","c","o","m","p","o","s","e","*",".","y","a","m","l">>
P_md == <<"*",".","m","d">>
P_any == <<"*">>

DefaultPatterns == <<P_yaml, P_yml, P_json, P_tf, P_compose_yml, P_compose_yaml>>

\* `patterns` arguments: <<>> stands for patterns=None
PatternArgs == { <<>>, <<P_any>>, <<P_md, P_yml, P_any>> }

\* the entries Path(directory).rglob(pattern) yields: every entry under the
\* directory, at any depth, whose name matches the pattern
Rglob(dir, pattern) == { e \in dir : GlobMatch(pattern, e.path.name) }

\* file_path.is_file()
IsFile(e) == e.kind = "file"

\* file_types[file_path_str] = file_type
DictSet(d, k, v) == [x \in DOMAIN d \cup {k} |-> IF x = k THEN v ELSE d[x]]

\* all_errors assigned instead of extended
Accumulate_Overwrite(errs, r) ==
    IF ~r.valid /\ r.file_type \notin NonConfigTypes
    THEN r.errors
    ELSE errs

\* the conditional all_errors.extend(errors) of one loop iteration
Accumulate(errs, r) ==
    IF ~r.valid /\ r.file_type \notin NonConfigTypes
    THEN errs \o r.errors
    ELSE errs

\* the is_valid that validate_directory returns
DirectoryValid(errs) == Len(errs) = 0

\* ---------------------------------------------------------------- inputs
Dict(ks) == [t |-> "dict", keys |-> ks]
Item(n, c) == [name |-> n, cfg |-> c]
Services(items) == [t |-> "dict", items |-> items]
YamlDoc(rt) == Content(TRUE, "ok", "error", rt, <<>>)

C_compose_ok ==
    YamlDoc(DictRoot({"version", "services"}, NoApiVersion, NoMetadata,
                     Services(<<Item("web", Dict({"image"}))>>)))
C_compose_bad ==
    YamlDoc(DictRoot({"services"}, NoApiVersion, NoMetadata,
                     Services(<<Item("web", [t |-> "null", keys |-> {}]),
                                Item("db", Dict({"build"}))>>)))
C_version_only ==
    YamlDoc(DictRoot({"version"}, NoApiVersion, NoMetadata, NoServices))
C_k8s_ok ==
    YamlDoc(DictRoot({"apiVersion", "kind", "metadata", "spec"},
                     StrVal(<<"a","p","p","s","/","v","1">>), Dict({"name"}), NoServices))
C_k8s_bad ==
    YamlDoc(DictRoot({"kind", "spec"}, NoApiVersion, NoMetadata, NoServices))
C_plain == YamlDoc(DictRoot({"key"}, NoApiVersion, NoMetadata, NoServices))
C_list == YamlDoc(NonDictRoot("list"))
C_broken == Content(TRUE, "error", "error", NonDictRoot("null"), <<"{">>)
C_unreadable == Content(FALSE, "error", "error", NonDictRoot("null"), <<>>)
C_json_ok == Content(TRUE, "ok", "ok", DictRoot({"key"}, NoApiVersion, NoMetadata, NoServices), <<"{", "}">>)
C_tf_ok ==
    Content(TRUE, "error", "error", NonDictRoot("str"),
            <<"r","e","s","o","u","r","c","e","{","}">>)
C_tf_bad ==
    Content(TRUE, "error", "error", NonDictRoot("str"),
            <<"r","e","s","o","u","r","c","e","{">>)

\* contents that exercise every branch of the content sniffing and of the
\* dispatch in validate_file
SniffContents ==
    { C_compose_ok, C_compose_bad, C_version_only, C_k8s_ok, C_k8s_bad, C_plain,
      C_list, C_broken, C_unreadable, C_json_ok, C_tf_ok, C_tf_bad }

Conf(n) == [parent |-> "conf", name |-> n]
K8sDir(n) == [parent |-> "k8s", name |-> n]

\* paths under which every content is tried
MainPaths == { Conf(N_docker_compose_yml), Conf(N_app_yml), Conf(N_main_tf), Conf(N_config_json) }

\* the files handed to the single-file operations
Files ==
         { File(p, "file", c) : p \in Paths, c \in SniffContents }
    \cup { File(p, "file", c) : p \in MainPaths, c \in Contents }
    \cup { File(p, k, C_plain) : p \in MainPaths, k \in {"missing", "dir"} }

\* file_type arguments of validate_file: "none" is None, the rest are labels
Hints ==
    { "none", "yaml", "json", "docker-compose", "kubernetes", "terraform",
      "markdown", "text", "python", "shell", "unknown", "toml" }

\* the entries a validated directory is made of (paths distinct)
DirEntries ==
    { File(Conf(N_docker_compose_yml), "file", C_compose_bad),
      File(Conf(N_docker_compose_override_yml), "file", C_compose_ok),
      File(Conf(N_compose_yaml), "file", C_version_only),
      File(Conf(N_config_yaml), "file", C_broken),
      File(Conf(N_config_json), "file", C_json_ok),
      File(K8sDir(N_pod_yaml), "file", C_k8s_bad),
      File(Conf(N_main_tf), "file", C_tf_bad),
      File(Conf(N_README_md), "file", C_broken),
      File(Conf(N_docker_compose_md), "file", C_compose_bad),
      File(Conf(N_Makefile), "file", C_broken),
      File(Conf(N_app_yml), "dir", C_plain) }

Directories == { d \in SUBSET DirEntries : Cardinality(d) <= MaxDirFiles }

\* ---------------------------------------------------------------- state
VARIABLES
    pc,              \* "idle", "walking" (inside validate_directory), "returned",
                     \* "main" (inside the loop of main), "exited"
    op,              \* the operation last called
    file,            \* its file argument
    hint,            \* its file_type argument
    ret,             \* what it returned
    directory,       \* validate_directory: the entries under `directory`
    patterns,        \* validate_directory: the pattern list in use
    pidx,            \* index of the pattern of the outer loop
    pending,         \* entries the current rglob has not yielded yet
    all_errors,
    files_validated,
    file_types,
    visits,          \* the validate_file calls made so far: arguments and results
    schema,          \* validate_json_schema: the schema_path argument and the
                     \* violations of the data file against that schema
    cli              \* main: the parsed arguments, the position in the loop
                     \* over args.paths, the locals, the exit status and stderr

vars == <<pc, op, file, hint, ret, directory, patterns, pidx, pending,
          all_errors, files_validated, file_types, visits, schema, cli>>

NoFile == File(Conf(<<>>), "missing", C_unreadable)
NoRet == FileResult(TRUE, <<>>, "", <<>>)
NoDict == [x \in {} |-> ""]
NoSchema == [arg |-> NoSchemaArg, violations |-> <<>>]
NoCli ==
    [paths |-> <<>>, type |-> "auto", schema |-> NoSchemaArg, idx |-> 0,
     all_errors |-> <<>>, files_checked |-> 0, log |-> <<>>, exit |-> -1,
     stderr |-> <<>>]

Init ==
    /\ pc = "idle" /\ op = "" /\ file = NoFile /\ hint = "none" /\ ret = NoRet
    /\ directory = {} /\ patterns = <<>> /\ pidx = 0 /\ pending = {}
    /\ all_errors = <<>> /\ files_validated = 0 /\ file_types = NoDict
    /\ visits = <<>> /\ schema = NoSchema /\ cli = NoCli

walkVars == <<directory, patterns, pidx, pending, all_errors, files_validated,
              file_types, visits>>

\* a call of a single-file operation: its arguments and its result
Call(name, f, h, r) ==
    /\ pc' = "returned" /\ op' = name /\ file' = f /\ hint' = h /\ ret' = r
    /\ UNCHANGED <<walkVars, schema, cli>>

\* a two-valued (valid, errors) result as a FileResult
Pair(r) == FileResult(r.valid, r.errors, "", <<>>)

CallValidateFile ==
    /\ pc = "idle"
    /\ \E f \in Files, h \in Hints : Call("validate_file", f, h, validate_file(f, h))

CallDetectFileType ==
    /\ pc = "idle"
    /\ \E f \in Files :
        Call("detect_file_type", f, "none", FileResult(TRUE, <<>>, detect_file_type(f), <<>>))

CallValidateYaml ==
    /\ pc = "idle"
    /\ \E f \in Files : Call("validate_yaml", f, "none", Pair(validate_yaml(f)))

CallValidateJson ==
    /\ pc = "idle"
    /\ \E f \in Files : Call("validate_json", f, "none", Pair(validate_json(f)))

CallValidateDockerCompose ==
    /\ pc = "idle"
    /\ \E f \in Files :
        Call("validate_docker_compose", f, "none", Pair(validate_docker_compose(f)))

CallValidateKubernetesManifest ==
    /\ pc = "idle"
    /\ \E f \in Files :
        Call("validate_kubernetes_manifest", f, "none", Pair(validate_kubernetes_manifest(f)))

CallValidateTerraform ==
    /\ pc = "idle"
    /\ \E f \in Files : Call("validate_terraform", f, "none", Pair(validate_terraform(f)))

\* the data files handed to validate_json_schema
SchemaDataFiles ==
    { File(Conf(N_config_json), k, c) :
        k \in {"file"}, c \in {C_json_ok, C_broken, C_unreadable, C_plain} }
    \cup { File(Conf(N_config_json), "missing", C_json_ok) }

CallValidateJsonSchema ==
    /\ pc = "idle"
    /\ \E f \in SchemaDataFiles, sp \in SchemaArgs, vs \in ViolationLists :
          /\ pc' = "returned" /\ op' = "validate_json_schema"
          /\ file' = f /\ hint' = "none"
          /\ schema' = [arg |-> sp, violations |-> vs]
          /\ ret' = LET r == validate_json_schema(f, sp, vs) IN
                       FileResult(r.valid, r.errors, "", JsonSchemaReads(f, sp))
          /\ UNCHANGED <<walkVars, cli>>

\* validate_directory, entry: the pattern default and the empty accumulators
DirStart ==
    /\ pc = "idle"
    /\ \E d \in Directories, pa \in PatternArgs :
        /\ pc' = "walking" /\ op' = "validate_directory"
        /\ directory' = d
        /\ patterns' = IF pa = <<>> THEN DefaultPatterns ELSE pa
        /\ pidx' = 0 /\ pending' = {}
        /\ all_errors' = <<>> /\ files_validated' = 0 /\ file_types' = NoDict
        /\ visits' = <<>>
        /\ UNCHANGED <<file, hint, ret, schema, cli>>

\* the outer loop takes the next pattern and starts its rglob
DirNextPattern ==
    /\ pc = "walking" /\ pending = {} /\ pidx < Len(patterns)
    /\ pidx' = pidx + 1
    /\ pending' = Rglob(directory, patterns[pidx + 1])
    /\ UNCHANGED <<cli, schema, pc, op, file, hint, ret, directory, patterns, all_errors,
                   files_validated, file_types, visits>>

\* one iteration of the inner loop on an entry that is a regular file
DirVisit ==
    /\ pc = "walking"
    /\ \E e \in pending :
        /\ IsFile(e)
        /\ LET r == validate_file(e, "none") IN
              /\ files_validated' = files_validated + 1
              /\ file_types' = DictSet(file_types, e.path, r.file_type)
              /\ all_errors' = Accumulate(all_errors, r)
              /\ visits' = Append(visits, [pattern |-> pidx, entry |-> e, result |-> r])
        /\ pending' = pending \ {e}
        /\ UNCHANGED <<cli, schema, pc, op, file, hint, ret, directory, patterns, pidx>>

\* one iteration of the inner loop on an entry that is not a regular file
DirSkip ==
    /\ pc = "walking"
    /\ \E e \in pending :
        /\ ~IsFile(e)
        /\ pending' = pending \ {e}
        /\ UNCHANGED <<cli, schema, pc, op, file, hint, ret, directory, patterns, pidx,
                       all_errors, files_validated, file_types, visits>>

\* both loops are exhausted: return
DirReturn ==
    /\ pc = "walking" /\ op = "validate_directory"
    /\ pending = {} /\ pidx = Len(patterns)
    /\ pc' = "returned"
    /\ ret' = FileResult(DirectoryValid(all_errors), all_errors, "", <<>>)
    /\ UNCHANGED <<cli, schema, op, file, hint, directory, patterns, pidx, pending,
                   all_errors, files_validated, file_types, visits>>

\* ------------------------------------------------------------------ main
\* A positional path.  kind: nothing exists there, a regular file, a
\* directory, or something else that exists;  file: the file there;
\* entries: what is under the directory;  violations: what the schema
\* evaluator finds in the file against the schema of --schema.
PathArg(k, f, es, vs) == [kind |-> k, file |-> f, entries |-> es, violations |-> vs]

PathArgs ==
    { PathArg("missing", File(Conf(N_app_yml), "missing", C_plain), {}, <<>>),
      PathArg("other", File(Conf(N_out_log), "dir", C_unreadable), {}, <<>>),
      PathArg("file", File(Conf(N_config_json), "file", C_json_ok), {}, <<>>),
      PathArg("file", File(Conf(N_config_json), "file", C_json_ok), {},
              <<[message |-> "'name' is a required property", where |-> ""]>>),
      PathArg("file", File(Conf(N_docker_compose_yml), "file", C_compose_bad), {}, <<>>),
      PathArg("file", File(Conf(N_README_md), "file", C_broken), {}, <<>>),
      PathArg("dir", File(Conf(<<"a">>), "dir", C_unreadable),
              { File(Conf(N_docker_compose_yml), "file", C_compose_bad),
                File(Conf(N_config_json), "file", C_json_ok) }, <<>>),
      PathArg("dir", File(Conf(<<"b">>), "dir", C_unreadable),
              { File(Conf(N_compose_yaml), "file", C_version_only) }, <<>>) }

\* the choices of --type
TypeChoices == {"yaml", "json", "docker-compose", "kubernetes", "terraform", "auto"}

\* the command lines: one or more positional paths (nargs='+')
PathLists == UNION { [1..n -> PathArgs] : n \in 1..MaxPaths }

\* the header line and the ERROR: lines written to stderr
Header == [prefix |-> "Validation failed!", error |-> Err("", NoFile, "")]
ErrorLines(errs) == [i \in 1..Len(errs) |-> [prefix |-> "ERROR:", error |-> errs[i]]]

\* the end of one iteration of the loop over args.paths: `added` is what the
\* iteration appended to all_errors, `n` what it added to files_checked
Iterated(added, n) ==
    [cli EXCEPT !.idx = @ + 1,
                !.all_errors = @ \o added,
                !.files_checked = @ + n,
                !.log = Append(@, [index |-> cli.idx + 1, added |-> added])]

\* the process starts: argparse gives the arguments, the locals are empty
MainStart ==
    /\ pc = "idle"
    /\ \E ps \in PathLists, t \in TypeChoices, sp \in {NoSchemaArg, SchemaArg(TRUE, TRUE, TRUE, "ok", TRUE)} :
          cli' = [NoCli EXCEPT !.paths = ps, !.type = t, !.schema = sp]
    /\ pc' = "main" /\ op' = "main"
    /\ UNCHANGED <<file, hint, ret, schema, walkVars>>

\* an iteration that leaves the loop at a path that does not exist
MainPathMissing_Break ==
    /\ pc = "main" /\ cli.idx < Len(cli.paths)
    /\ LET a == cli.paths[cli.idx + 1] IN
          /\ a.kind = "missing"
          /\ cli' = [Iterated(<<Err("Path not found", a.file, "")>>, 0)
                        EXCEPT !.idx = Len(cli.paths)]
    /\ UNCHANGED <<pc, op, file, hint, ret, schema, walkVars>>

\* an iteration on a path that does not exist
MainPathMissing ==
    /\ pc = "main" /\ cli.idx < Len(cli.paths)
    /\ LET a == cli.paths[cli.idx + 1] IN
          /\ a.kind = "missing"
          /\ cli' = Iterated(<<Err("Path not found", a.file, "")>>, 0)
    /\ UNCHANGED <<pc, op, file, hint, ret, schema, walkVars>>

\* an iteration on a regular file
MainPathFile ==
    /\ pc = "main" /\ cli.idx < Len(cli.paths)
    /\ LET a == cli.paths[cli.idx + 1]
           file_type == IF cli.type = "auto" THEN "none" ELSE cli.type
           r == IF cli.schema.given /\ cli.type = "json"
                THEN validate_json_schema(a.file, cli.schema, a.violations)
                ELSE validate_file(a.file, file_type) IN
          /\ a.kind = "file"
          /\ cli' = Iterated(IF ~r.valid THEN r.errors ELSE <<>>, 1)
    /\ UNCHANGED <<pc, op, file, hint, ret, schema, walkVars>>

\* an iteration on a path that exists and is neither a file nor a directory
MainPathOther ==
    /\ pc = "main" /\ cli.idx < Len(cli.paths)
    /\ cli.paths[cli.idx + 1].kind = "other"
    /\ cli' = Iterated(<<>>, 0)
    /\ UNCHANGED <<pc, op, file, hint, ret, schema, walkVars>>

\* an iteration on a directory: the call of validate_directory
MainPathDir ==
    /\ pc = "main" /\ cli.idx < Len(cli.paths)
    /\ cli.paths[cli.idx + 1].kind = "dir"
    /\ pc' = "walking"
    /\ directory' = cli.paths[cli.idx + 1].entries
    /\ patterns' = DefaultPatterns
    /\ pidx' = 0 /\ pending' = {}
    /\ all_errors' = <<>> /\ files_validated' = 0 /\ file_types' = NoDict
    /\ visits' = <<>>
    /\ UNCHANGED <<op, file, hint, ret, schema, cli>>

\* validate_directory returns to main, which ends the iteration
MainDirReturn ==
    /\ pc = "walking" /\ op = "main"
    /\ pending = {} /\ pidx = Len(patterns)
    /\ pc' = "main"
    /\ cli' = Iterated(IF ~DirectoryValid(all_errors) THEN all_errors ELSE <<>>,
                       Cardinality(DOMAIN file_types))
    /\ directory' = {} /\ patterns' = <<>> /\ pidx' = 0 /\ pending' = {}
    /\ all_errors' = <<>> /\ files_validated' = 0 /\ file_types' = NoDict
    /\ visits' = <<>>
    /\ UNCHANGED <<op, file, hint, ret, schema>>

\* the exit status main() ends the process with
ExitStatus(errs) == IF errs # <<>> THEN 1 ELSE 0

\* the loop is over: the report and sys.exit
MainExit ==
    /\ pc = "main" /\ cli.idx = Len(cli.paths)
    /\ pc' = "exited"
    /\ cli' = [cli EXCEPT
                 !.exit = ExitStatus(cli.all_errors),
                 !.stderr = IF cli.all_errors # <<>>
                            THEN <<Header>> \o ErrorLines(cli.all_errors)
                            ELSE <<>>]
    /\ UNCHANGED <<op, file, hint, ret, schema, walkVars>>

\* the caller takes the result; the validator keeps nothing between calls
Continue ==
    /\ pc \in {"returned", "exited"}
    /\ pc' = "idle" /\ op' = "" /\ file' = NoFile /\ hint' = "none" /\ ret' = NoRet
    /\ directory' = {} /\ patterns' = <<>> /\ pidx' = 0 /\ pending' = {}
    /\ all_errors' = <<>> /\ files_validated' = 0 /\ file_types' = NoDict
    /\ visits' = <<>> /\ schema' = NoSchema /\ cli' = NoCli

Next ==
    \/ CallValidateFile
    \/ CallDetectFileType
    \/ CallValidateYaml
    \/ CallValidateJson
    \/ CallValidateDockerCompose
    \/ CallValidateKubernetesManifest
    \/ CallValidateTerraform
    \/ CallValidateJsonSchema
    \/ DirStart
    \/ DirNextPattern
    \/ DirVisit
    \/ DirSkip
    \/ DirReturn
    \/ MainStart
    \/ MainPathMissing
    \/ MainPathFile
    \/ MainPathOther
    \/ MainPathDir
    \/ MainDirReturn
    \/ MainExit
    \/ Continue

Spec == Init /\ [][Next]_vars

\* =================================================================== claims
Range(seq) == { seq[i] : i \in 1..Len(seq) }

\* the validate_file calls whose arguments and result the state shows: the
\* call that just returned, and the calls validate_directory has made
FileCalls ==
    (IF pc = "returned" /\ op = "validate_file"
     THEN { [entry |-> file, hint |-> hint, result |-> ret] } ELSE {})
    \cup { [entry |-> visits[i].entry, hint |-> "none", result |-> visits[i].result] :
             i \in 1..Len(visits) }

Returned(name) == pc = "returned" /\ op = name

SyntaxCheckers == {"validate_yaml", "validate_json"}
StructuralValidators ==
    {"validate_docker_compose", "validate_kubernetes_manifest", "validate_terraform"}

\* C1: in validate_file on an existing file of type yaml, docker-compose,
\* kubernetes or json, a failing syntax checker makes the call return invalid
\* with exactly the syntax checker's errors and without running any structural
\* validator; for type terraform no syntax checker runs and validate_terraform
\* always runs.
C1_SyntaxFailureSkipsStructure ==
    \A c \in FileCalls :
        Exists(c.entry) =>
            LET t == c.result.file_type
                ran == Range(c.result.calls) IN
            /\ (t \in {"yaml", "docker-compose", "kubernetes"} /\ ~validate_yaml(c.entry).valid)
                  => /\ ~c.result.valid
                     /\ c.result.errors = validate_yaml(c.entry).errors
                     /\ ran \cap StructuralValidators = {}
            /\ (t = "json" /\ ~validate_json(c.entry).valid)
                  => /\ ~c.result.valid
                     /\ c.result.errors = validate_json(c.entry).errors
                     /\ ran \cap StructuralValidators = {}
            /\ t = "terraform"
                  => /\ ran \cap SyntaxCheckers = {}
                     /\ "validate_terraform" \in ran

\* a file detected as docker-compose whose content has a YAML syntax error
\* was validated: only the detector and validate_yaml ran
C1_Witness ==
    /\ Returned("validate_file") /\ Exists(file)
    /\ ret.file_type = "docker-compose" /\ file.content.yaml = "error" /\ CanRead(file)
    /\ ret.calls = <<"detect_file_type", "validate_yaml">>
    /\ Len(ret.errors) = 1

\* C2: the triple validate_file returns has is_valid true exactly when its
\* error list is empty, for every path and every type hint.
C2_ValidIffNoErrors ==
    \A c \in FileCalls : c.result.valid <=> (c.result.errors = <<>>)

\* a call with a hint returned invalid after a syntax failure
C2_Witness ==
    /\ Returned("validate_file") /\ hint = "kubernetes" /\ Exists(file)
    /\ ~ret.valid /\ ret.calls = <<"validate_yaml">> /\ Len(ret.errors) = 1

\* C3: an existing file whose resolved type is markdown, text, python or shell
\* is returned as (true, [], type) with no syntax or structural check run,
\* whatever its content, and no error of the aggregate list of
\* validate_directory comes from such a file.
C3_NonConfigAlwaysValid ==
    /\ \A c \in FileCalls :
          (Exists(c.entry) /\ c.result.file_type \in {"markdown", "text", "python", "shell"})
             => /\ c.result.valid
                /\ c.result.errors = <<>>
                /\ Range(c.result.calls) \cap (SyntaxCheckers \cup StructuralValidators) = {}
    /\ \A i \in 1..Len(visits) :
          visits[i].result.file_type \in {"markdown", "text", "python", "shell"}
             => \A k \in 1..Len(all_errors) : all_errors[k].path # visits[i].entry.path

\* validate_directory visited a markdown file whose content does not parse,
\* next to a file that did add errors
C3_Witness ==
    /\ Returned("validate_directory")
    /\ \E i \in 1..Len(visits) :
          /\ visits[i].result.file_type = "markdown"
          /\ visits[i].entry.content.yaml = "error"
    /\ all_errors # <<>>

\* the suffix test of the documented rules, on the lower-cased file name
HasExt(n, e) ==
    /\ Len(n) >= Len(e)
    /\ \A i \in 1..Len(e) : n[Len(n) - Len(e) + i] = e[i]

\* `sub` occurs in `n`
Occurs(n, sub) ==
    \E k \in 0..(Len(n) - Len(sub)) : \A i \in 1..Len(sub) : n[k + i] = sub[i]

\* the documented content rule of step (6)
DocumentedYamlType(f) ==
    LET parsed == f.kind = "file" /\ f.content.readable /\ f.content.yaml = "ok"
        ks == f.content.root.keys IN
    CASE parsed /\ f.content.root.t = "dict" /\ {"apiVersion", "kind"} \subseteq ks -> "kubernetes"
      [] parsed /\ f.content.root.t = "dict" /\ ~({"apiVersion", "kind"} \subseteq ks)
                /\ ({"services", "version"} \cap ks # {}) -> "docker-compose"
      [] OTHER -> "yaml"

\* the documented decision order: the rules (1)..(7), each a condition and a label
DocumentedRules(f) ==
    LET n == Lower(f.path.name) IN
    << [c |-> HasExt(n, <<".","m","d">>) \/ HasExt(n, <<".","m","a","r","k","d","o","w","n">>),
        l |-> "markdown"],
       [c |-> HasExt(n, <<".","t","x","t">>) \/ HasExt(n, <<".","l","o","g">>), l |-> "text"],
       [c |-> HasExt(n, <<".","p","y">>) \/ HasExt(n, <<".","p","y","c">>), l |-> "python"],
       [c |-> HasExt(n, <<".","s","h">>) \/ HasExt(n, <<".","b","a","s","h">>), l |-> "shell"],
       [c |-> Occurs(n, <<"d","o","c","k","e","r","-","c","o","m","p","o","s","e">>)
              \/ n \in { <<"c","o","m","p","o","s","e",".","y","m","l">>,
                         <<"c","o","m","p","o","s","e",".","y","a","m","l">> },
        l |-> "docker-compose"],
       [c |-> HasExt(n, <<".","t","f">>) \/ HasExt(n, <<".","t","f",".","j","s","o","n">>),
        l |-> "terraform"],
       [c |-> Occurs(n, <<"k","8","s">>) \/ Occurs(n, <<"k","u","b","e","r","n","e","t","e","s">>)
              \/ f.path.parent = "k8s",
        l |-> "kubernetes"],
       [c |-> HasExt(n, <<".","j","s","o","n">>), l |-> "json"],
       [c |-> HasExt(n, <<".","y","a","m","l">>) \/ HasExt(n, <<".","y","m","l">>),
        l |-> DocumentedYamlType(f)],
       [c |-> TRUE, l |-> "unknown"] >>

\* first match wins
DocumentedType(f) ==
    LET rules == DocumentedRules(f)
        first == CHOOSE i \in 1..Len(rules) : rules[i].c /\ \A j \in 1..(i - 1) : ~rules[j].c
    IN rules[first].l

FileTypes ==
    { "yaml", "json", "docker-compose", "kubernetes", "terraform",
      "markdown", "text", "python", "shell", "unknown" }

\* C4: detect_file_type returns the label of the first matching rule of the
\* documented decision order (1)..(7), applied to the lower-cased file name; it
\* always returns one of the ten labels (it never raises, also on unreadable
\* or unparsable content), and docker-compose.override.yml, compose.yaml and
\* k8s/pod.yaml resolve to docker-compose, docker-compose and kubernetes.
C4_DetectFollowsDecisionOrder ==
    Returned("detect_file_type") =>
        /\ ret.file_type \in FileTypes
        /\ ret.file_type = DocumentedType(file)
        /\ file.path.name = N_docker_compose_override_yml => ret.file_type = "docker-compose"
        /\ file.path.name = N_compose_yaml => ret.file_type = "docker-compose"
        /\ (file.path.name = N_pod_yaml /\ file.path.parent = "k8s") => ret.file_type = "kubernetes"

\* the detector sniffed a .yml file whose mapping has apiVersion, kind and
\* services, and answered kubernetes
C4_Witness ==
    /\ Returned("detect_file_type")
    /\ file.path = Conf(N_app_yml)
    /\ {"apiVersion", "kind", "services"} \subseteq file.content.root.keys
    /\ ret.file_type = "kubernetes"

\* the regular files of the directory that match at least one pattern
Matching(dir, pats) ==
    { e \in dir : e.kind = "file" /\ \E k \in 1..Len(pats) : GlobMatch(pats[k], e.path.name) }

\* C5: validate_directory (here with the default patterns) calls validate_file
\* once per distinct matching file, also for a file that matches several
\* patterns, and that file's errors are in the aggregate error list at most
\* once.
C5_EachFileValidatedOnce ==
    (Returned("validate_directory") /\ patterns = DefaultPatterns) =>
        /\ \A i, j \in 1..Len(visits) :
              i # j => visits[i].entry.path # visits[j].entry.path
        /\ files_validated = Cardinality(Matching(directory, patterns))
        /\ \A i \in 1..Len(visits) :
              Cardinality({ k \in 1..Len(all_errors) : all_errors[k].path = visits[i].entry.path })
                 <= Len(visits[i].result.errors)

\* the errors the visits contribute, in visit order
RECURSIVE ExpectedErrors(_)
ExpectedErrors(vs) ==
    IF vs = <<>> THEN <<>>
    ELSE (IF ~Head(vs).result.valid
             /\ Head(vs).result.file_type \notin {"markdown", "text", "python", "shell"}
          THEN Head(vs).result.errors ELSE <<>>) \o ExpectedErrors(Tail(vs))

\* C6: validate_directory never stops at a failing file: for each pattern in
\* turn every matching regular file is validated and gets its type in
\* file_types, valid or not; the aggregate error list is the concatenation,
\* in the order of that enumeration, of the errors of the invalid config-type
\* files; and is_valid is true exactly when every visited config-type file was
\* reported valid, equivalently when the aggregate error list is empty.
C6_DirectoryNeverAborts ==
    Returned("validate_directory") =>
        /\ \A k \in 1..Len(patterns) :
              { visits[i].entry : i \in { j \in 1..Len(visits) : visits[j].pattern = k } }
                 = Matching(directory, <<patterns[k]>>)
        /\ \A i, j \in 1..Len(visits) : i < j => visits[i].pattern <= visits[j].pattern
        /\ DOMAIN file_types = { e.path : e \in Matching(directory, patterns) }
        /\ \A i \in 1..Len(visits) :
              /\ visits[i].result = validate_file(visits[i].entry, "none")
              /\ file_types[visits[i].entry.path] = visits[i].result.file_type
        /\ ret.errors = ExpectedErrors(visits)
        /\ ret.valid <=> \A i \in 1..Len(visits) :
              visits[i].result.file_type \notin {"markdown", "text", "python", "shell"}
                 => visits[i].result.valid
        /\ ret.valid <=> (ret.errors = <<>>)

\* a directory walk went on after an invalid file: two different files were
\* visited, the first one invalid, and both contributed errors
C6_Witness ==
    /\ Returned("validate_directory")
    /\ Len(visits) >= 2
    /\ ~visits[1].result.valid
    /\ visits[2].entry.path # visits[1].entry.path
    /\ ~visits[2].result.valid
    /\ Len(ret.errors) = Len(visits[1].result.errors) + Len(visits[2].result.errors)
    /\ ~ret.valid

\* the document a structural validator got from yaml.safe_load is a mapping
ParsedMapping(f) ==
    f.kind = "file" /\ f.content.readable /\ f.content.yaml = "ok" /\ f.content.root.t = "dict"

\* the number of errors of `errs` with wording m and embedded name a
NumErrors(errs, m, a) ==
    Cardinality({ i \in 1..Len(errs) : errs[i].msg = m /\ errs[i].arg = a })

\* C7: validate_docker_compose rejects every document whose root is a mapping
\* without a `services` key, with or without a `version` key, with the single
\* error "Missing 'services' key".
C7_MissingServicesRejected ==
    (Returned("validate_docker_compose") /\ ParsedMapping(file)
        /\ "services" \notin file.content.root.keys)
    => /\ ~ret.valid
       /\ Len(ret.errors) = 1
       /\ ret.errors[1].msg = "Missing 'services' key"

\* a service entry in error: not a mapping, or a mapping with neither key
BadService(item) ==
    \/ item.cfg.t # "dict"
    \/ item.cfg.keys \cap {"image", "build"} = {}

\* C8: when `services` is a mapping, validate_docker_compose checks every
\* service: it returns exactly one error, naming the service, for each service
\* that is not a mapping or has neither `image` nor `build`, in document
\* order, no error for any other service and no other error; the document is
\* valid exactly when no service is in error.
C8_EveryServiceChecked ==
    (Returned("validate_docker_compose") /\ ParsedMapping(file)
        /\ "services" \in file.content.root.keys
        /\ file.content.root.services.t = "dict")
    => LET items == file.content.root.services.items
           bad == { i \in 1..Len(items) : BadService(items[i]) } IN
       /\ Len(ret.errors) = Cardinality(bad)
       /\ \A i \in 1..Len(items) :
             Cardinality({ k \in 1..Len(ret.errors) : ret.errors[k].arg = items[i].name })
                = IF i \in bad THEN 1 ELSE 0
       /\ \A k, l \in 1..Len(ret.errors) :
             k < l => \E i, j \in bad :
                         /\ i < j
                         /\ items[i].name = ret.errors[k].arg
                         /\ items[j].name = ret.errors[l].arg
       /\ ret.valid <=> (bad = {})

\* a document whose first two services are both in error got two errors
C8_Witness ==
    /\ Returned("validate_docker_compose") /\ ParsedMapping(file)
    /\ file.content.root.services.t = "dict"
    /\ Len(file.content.root.services.items) >= 2
    /\ BadService(file.content.root.services.items[1])
    /\ BadService(file.content.root.services.items[2])
    /\ Len(ret.errors) >= 2

\* C9: for a root mapping, validate_kubernetes_manifest reports one 'missing
\* required field' error for each of apiVersion, kind and metadata that is
\* absent and none for one that is present (so k missing fields give at least
\* k errors), and a present `metadata` gives exactly one more error when it is
\* not a mapping or is a mapping without `name`, none otherwise.
C9_RequiredFieldsIndependent ==
    (Returned("validate_kubernetes_manifest") /\ ParsedMapping(file))
    => LET ks == file.content.root.keys
           missing == {"apiVersion", "kind", "metadata"} \ ks
           md == file.content.root.metadata
           mdErrors == NumErrors(ret.errors, "'metadata' must be a dictionary", "")
                       + NumErrors(ret.errors, "'metadata.name' is required", "") IN
       /\ \A fld \in {"apiVersion", "kind", "metadata"} :
             NumErrors(ret.errors, "Missing required field", fld)
                = IF fld \in missing THEN 1 ELSE 0
       /\ Len(ret.errors) >= Cardinality(missing)
       /\ mdErrors = IF "metadata" \in ks /\ (md.t # "dict" \/ "name" \notin md.keys)
                     THEN 1 ELSE 0

\* a manifest missing apiVersion and metadata got an error for each
C9_Witness ==
    /\ Returned("validate_kubernetes_manifest") /\ ParsedMapping(file)
    /\ file.content.root.keys \cap {"apiVersion", "kind", "metadata"} = {"kind"}
    /\ Len(ret.errors) = 2

\* C10: when `apiVersion` is present, validate_kubernetes_manifest reports no
\* apiVersion-format error exactly when the value is a string that equals "v1"
\* or contains a '/'; every non-string value and every other string gets
\* exactly one apiVersion-format error.
C10_ApiVersionFormat ==
    (Returned("validate_kubernetes_manifest") /\ ParsedMapping(file)
        /\ "apiVersion" \in file.content.root.keys)
    => LET v == file.content.root.apiVersion
           accepted == /\ v.t = "str"
                       /\ (v.s = <<"v", "1">> \/ \E i \in 1..Len(v.s) : v.s[i] = "/")
           n == NumErrors(ret.errors,
                          "'apiVersion' should follow format 'group/version' or 'v1'", "") IN
       /\ accepted => n = 0
       /\ ~accepted => n = 1

\* an integer apiVersion was flagged, in a manifest with nothing else wrong
C10_Witness ==
    /\ Returned("validate_kubernetes_manifest") /\ ParsedMapping(file)
    /\ file.content.root.apiVersion.t = "int"
    /\ {"kind", "metadata"} \subseteq file.content.root.keys
    /\ file.content.root.metadata = [t |-> "dict", keys |-> {"name"}]
    /\ Len(ret.errors) = 1

\* the number of occurrences of the character ch in text
Occurrences(text, ch) == Cardinality({ i \in 1..Len(text) : text[i] = ch })

\* none of the seven block keywords is a substring of text
NoKeyword(text) ==
    \A kw \in { <<"r","e","s","o","u","r","c","e">>, <<"d","a","t","a">>,
                <<"v","a","r","i","a","b","l","e">>, <<"o","u","t","p","u","t">>,
                <<"p","r","o","v","i","d","e","r">>, <<"m","o","d","u","l","e">>,
                <<"t","e","r","r","a","f","o","r","m">> } : ~Occurs(text, kw)

\* C11: validate_terraform on readable text runs all three checks: the number
\* of errors equals the number of failed checks among unequal '{' / '}'
\* counts, unequal '[' / ']' counts and no block keyword occurring as a
\* substring; an imbalance error cites both counts; the result is valid
\* exactly when all three checks pass.
C11_TerraformRunsAllChecks ==
    (Returned("validate_terraform") /\ file.kind = "file" /\ file.content.readable)
    => LET text == file.content.text
           ob == Occurrences(text, "{")
           cb == Occurrences(text, "}")
           ok == Occurrences(text, "[")
           ck == Occurrences(text, "]")
           failed == (IF ob # cb THEN 1 ELSE 0) + (IF ok # ck THEN 1 ELSE 0)
                     + (IF NoKeyword(text) THEN 1 ELSE 0) IN
       /\ Len(ret.errors) = failed
       /\ NumErrors(ret.errors, "Unbalanced braces", "") = IF ob # cb THEN 1 ELSE 0
       /\ NumErrors(ret.errors, "Unbalanced brackets", "") = IF ok # ck THEN 1 ELSE 0
       /\ NumErrors(ret.errors, "No Terraform blocks found", "") = IF NoKeyword(text) THEN 1 ELSE 0
       /\ \A k \in 1..Len(ret.errors) :
             /\ ret.errors[k].msg = "Unbalanced braces"
                   => (ret.errors[k].n1 = ob /\ ret.errors[k].n2 = cb)
             /\ ret.errors[k].msg = "Unbalanced brackets"
                   => (ret.errors[k].n1 = ok /\ ret.errors[k].n2 = ck)
       /\ ret.valid <=> (failed = 0)

\* a text with an unmatched '{', an unmatched '[' and no keyword got three errors
C11_Witness ==
    /\ Returned("validate_terraform") /\ file.kind = "file" /\ file.content.readable
    /\ file.content.text = <<"{", "[">>
    /\ Len(ret.errors) = 3

\* C12: validate_json_schema, in this order: a data file that is not valid
\* JSON gives invalid with exactly one syntax error and the schema is never
\* read; otherwise no schema path gives valid with no errors; otherwise a
\* schema path that does not exist gives invalid with exactly one error;
\* otherwise (the schema file holds a schema) data that violates the schema
\* gives invalid with the first violation only, one message entry plus at most
\* one path entry however many violations there are, and conforming data
\* gives valid with zero errors.
C12_JsonSchemaOrder ==
    (Returned("validate_json_schema") /\ file.kind = "file" /\ file.content.readable)
    => LET sp == schema.arg
           vs == schema.violations
           usable == sp.readable /\ sp.json = "ok" /\ sp.wellformed IN
       IF file.content.json # "ok"
       THEN /\ ~ret.valid
            /\ Len(ret.errors) = 1
            /\ ret.errors[1].msg = "JSON syntax error in"
            /\ "schema" \notin Range(ret.calls)
       ELSE IF ~sp.given
       THEN ret.valid /\ ret.errors = <<>>
       ELSE IF ~sp.exists
       THEN /\ ~ret.valid
            /\ Len(ret.errors) = 1
            /\ ret.errors[1].msg = "Schema file not found"
       ELSE usable =>
            IF vs # <<>>
            THEN /\ ~ret.valid
                 /\ ret.errors[1].msg = "Schema validation error"
                 /\ ret.errors[1].arg = vs[1].message
                 /\ Len(ret.errors) = IF vs[1].where = "" THEN 1 ELSE 2
                 /\ Len(ret.errors) = 2
                       => (ret.errors[2].msg = "  Path:" /\ ret.errors[2].arg = vs[1].where)
            ELSE ret.valid /\ ret.errors = <<>>

\* a document with two violations of the schema got the first one only, as a
\* message entry and a path entry
C12_Witness ==
    /\ Returned("validate_json_schema") /\ file.kind = "file" /\ file.content.readable
    /\ file.content.json = "ok"
    /\ schema.arg.given /\ schema.arg.exists /\ schema.arg.wellformed
    /\ Len(schema.violations) = 2
    /\ schema.violations[1].where # ""
    /\ schema.violations[2] # schema.violations[1]
    /\ Len(ret.errors) = 2

\* what the iterations of main's loop appended to all_errors, in order
RECURSIVE Appended(_)
Appended(log) ==
    IF log = <<>> THEN <<>> ELSE Head(log).added \o Appended(Tail(log))

\* C13: main processes every positional path in order and never stops early:
\* a path that does not exist adds exactly one error and the paths after it
\* are still processed; when all paths are processed the process exits with
\* status 1 and one ERROR: line per aggregated error if the aggregate error
\* list is non-empty, and with status 0 exactly when it is empty.
C13_MainProcessesEveryPath ==
    pc = "exited" =>
        /\ Len(cli.log) = Len(cli.paths)
        /\ \A i \in 1..Len(cli.log) :
              /\ cli.log[i].index = i
              /\ cli.paths[i].kind = "missing"
                    => /\ Len(cli.log[i].added) = 1
                       /\ cli.log[i].added[1].msg = "Path not found"
                       /\ cli.log[i].added[1].path = cli.paths[i].file.path
        /\ cli.all_errors = Appended(cli.log)
        /\ cli.exit \in {0, 1}
        /\ cli.exit = 1 <=> cli.all_errors # <<>>
        /\ cli.exit = 0 <=> cli.all_errors = <<>>
        /\ cli.all_errors # <<>> =>
              /\ Len(cli.stderr) = 1 + Len(cli.all_errors)
              /\ \A i \in 1..Len(cli.all_errors) :
                    /\ cli.stderr[i + 1].prefix = "ERROR:"
                    /\ cli.stderr[i + 1].error = cli.all_errors[i]
        /\ cli.all_errors = <<>> =>
              \A i \in 1..Len(cli.stderr) : cli.stderr[i].prefix # "ERROR:"

\* a run whose first path does not exist went on to its second path, an
\* invalid file, and exited with status 1
C13_Witness ==
    /\ pc = "exited"
    /\ Len(cli.paths) = 2
    /\ cli.paths[1].kind = "missing"
    /\ cli.paths[2].kind = "file"
    /\ Len(cli.log) = 2
    /\ cli.log[2].added # <<>>
    /\ cli.exit = 1
    /\ Len(cli.stderr) = 1 + Len(cli.all_errors)

\* C14: for a path that does not exist, validate_file returns invalid with
\* exactly the one error "File not found: <path>" and file_type 'unknown',
\* whatever type hint is given, and runs neither the detector nor a checker.
C14_FileNotFound ==
    \A c \in FileCalls :
        c.entry.kind = "missing" =>
            /\ ~c.result.valid
            /\ Len(c.result.errors) = 1
            /\ c.result.errors[1].msg = "File not found"
            /\ c.result.errors[1].path = c.entry.path
            /\ c.result.file_type = "unknown"
            /\ c.result.calls = <<>>

\* validate_file was called with a hint on a path that does not exist
C14_Witness ==
    /\ Returned("validate_file") /\ file.kind = "missing"
    /\ hint = "kubernetes"
    /\ ret.file_type = "unknown" /\ Len(ret.errors) = 1

\* C15: for an existing file whose resolved type is 'unknown' (detected) or a
\* hint outside yaml/json/docker-compose/kubernetes/terraform and the
\* non-config types, validate_file runs no syntax checker and no structural
\* validator and returns (true, [], that type), whatever the content.
C15_UnknownTypeAlwaysValid ==
    \A c \in FileCalls :
        LET resolved == IF c.hint = "none" THEN c.result.file_type ELSE c.hint IN
        (c.entry.kind # "missing"
            /\ resolved \notin {"yaml", "json", "docker-compose", "kubernetes", "terraform",
                                "markdown", "text", "python", "shell"})
        => /\ c.result.valid
           /\ c.result.errors = <<>>
           /\ c.result.file_type = resolved
           /\ Range(c.result.calls) \cap (SyntaxCheckers \cup StructuralValidators) = {}
           /\ c.hint = "none" => c.result.file_type = "unknown"

\* a file the detector cannot classify, with content that does not parse,
\* was reported valid
C15_Witness ==
    /\ Returned("validate_file") /\ hint = "none"
    /\ file.kind = "file" /\ file.path.name = N_Makefile
    /\ file.content.yaml = "error" /\ file.content.json = "error"
    /\ ret.file_type = "unknown" /\ ret.valid
    /\ ret.calls = <<"detect_file_type">>

====
